---- MODULE Spec2Model ----
(***************************************************************************)
(* A model of the bevy-chess rules engine (src/src/logic.rs) and of the    *)
(* two systems that mutate the board (drag_piece and promotion_chooser of  *)
(* src/src/piece.rs), chained per frame as in src/src/main.rs.             *)
(*                                                                         *)
(* A Coordinate(file, rank) is the tuple <<file, rank>>.  A Piece is the   *)
(* record [kind, color, square, moved].  Board.pieces (a HashMap) is a     *)
(* function whose DOMAIN is the set of occupied coordinates.  Option<T> is *)
(* the empty sequence (None) or a one-element sequence (Some(x)).  A       *)
(* Vec<Coordinate> that the code only ever tests with contains/is_empty    *)
(* is the set of its elements.                                             *)
(***************************************************************************)
EXTENDS Integers, Sequences, FiniteSets, TLC

VARIABLES
    pieces,            \* Board.pieces
    on_move,           \* Board.on_move
    turn_number,       \* Board.turn_number
    en_pessant_file,   \* Board.en_pessant_file
    allow_drag,        \* resource AllowDrag
    promotion_square,  \* resource PromotionSquare
    promotion_options, \* the PromotionOption sprites that are Visibility::Visible
    pc,                \* the system of the per-frame chain that runs next
    last,              \* history: the last move_piece call of drag_piece
    everMoved,         \* history: squares holding a piece move_piece has moved
    commits,           \* history: how many moves drag_piece has committed
    horizon            \* the turn_number at which exploration stops

vars == <<pieces, on_move, turn_number, en_pessant_file, allow_drag,
          promotion_square, promotion_options, pc, last, everMoved, commits,
          horizon>>

(***************************************************************************)
(* Bounds of the exploration.                                              *)
(***************************************************************************)
\* plies explored from a mid-game position
MaxPly == 3
\* plies explored from Board::new()
NewPly == 1
\* plies explored from a position one move before a mate or a stalemate
EndPly == 2

(***************************************************************************)
(* Types of logic.rs.                                                      *)
(***************************************************************************)
PieceKind == {"PAWN", "ROOK", "KNIGHT", "BISHOP", "KING", "QUEEN"}

PieceColor == {"WHITE", "BLACK"}

None == << >>

Some(x) == << x >>

unwrap(o) == o[1]

Coordinate(f, r) == << f, r >>

Piece(k, c, sq, m) == [kind |-> k, color |-> c, square |-> sq, moved |-> m]

ROOK_PATTERN == { <<1, 0>>, <<-1, 0>>, <<0, 1>>, <<0, -1>> }

BISHOP_PATTERN == { <<1, 1>>, <<-1, 1>>, <<1, -1>>, <<-1, -1>> }

KNIGHT_PATTERN == { <<1, 2>>, <<2, 1>>, <<-1, 2>>, <<2, -1>>,
                    <<1, -2>>, <<-2, 1>>, <<-1, -2>>, <<-2, -1>> }

abs(x) == IF x < 0 THEN -x ELSE x

signum(x) == IF x < 0 THEN -1 ELSE IF x > 0 THEN 1 ELSE 0

\* HashMap::insert and HashMap::remove on Board.pieces
insert(p, sq, piece) ==
    [s \in (DOMAIN p) \cup {sq} |-> IF s = sq THEN piece ELSE p[s]]

remove(p, sq) == [s \in (DOMAIN p) \ {sq} |-> p[s]]

on_board(sq) == sq[1] >= 0 /\ sq[1] <= 7 /\ sq[2] >= 0 /\ sq[2] <= 7

\* the pawn's direction of travel (logic.rs: `direction`)
pawn_direction(color) == IF color = "WHITE" THEN 1 ELSE -1

(***************************************************************************)
(* Board::new(): the starting position.                                    *)
(***************************************************************************)
BACK_RANK == << "ROOK", "KNIGHT", "BISHOP", "KING", "QUEEN", "BISHOP", "KNIGHT", "ROOK" >>

\* mutant of new_pieces: the king and the queen of each color swapped
new_pieces_king_and_queen_swapped ==
    [sq \in (0..7) \X {0, 1, 6, 7} |->
        LET color == IF sq[2] <= 1 THEN "WHITE" ELSE "BLACK"
            kind  == IF sq[2] \in {0, 7} THEN BACK_RANK[8 - sq[1]] ELSE "PAWN"
        IN  Piece(kind, color, sq, FALSE)]

new_pieces ==
    [sq \in (0..7) \X {0, 1, 6, 7} |->
        LET color == IF sq[2] <= 1 THEN "WHITE" ELSE "BLACK"
            kind  == IF sq[2] \in {0, 7} THEN BACK_RANK[sq[1] + 1] ELSE "PAWN"
        IN  Piece(kind, color, sq, FALSE)]

new == [pieces |-> new_pieces, on_move |-> "WHITE", turn_number |-> 0,
        en_pessant_file |-> None]

(***************************************************************************)
(* Board::looking_at                                                       *)
(***************************************************************************)
\* mutant of step_targets: a square holding a piece of the same color counts
step_targets_onto_own(p, piece, deltas) ==
    { sq \in { Coordinate(piece.square[1] + d[1], piece.square[2] + d[2]) : d \in deltas } :
        on_board(sq) }

\* the KING and KNIGHT arms: the offsets that stay on the board and do not
\* land on a piece of the same color
step_targets(p, piece, deltas) ==
    { sq \in { Coordinate(piece.square[1] + d[1], piece.square[2] + d[2]) : d \in deltas } :
        /\ on_board(sq)
        /\ ~(sq \in DOMAIN p /\ p[sq].color = piece.color) }

KING_DELTAS == { d \in (-1..1) \X (-1..1) : ~(d[1] = 0 /\ d[2] = 0) }

\* mutant of walk: the first occupied square counts whatever its color
RECURSIVE walk_onto_own(_, _, _, _)
walk_onto_own(p, color, check, delta) ==
    LET next == Coordinate(check[1] + delta[1], check[2] + delta[2])
    IN  IF ~on_board(next) THEN {}
        ELSE IF next \in DOMAIN p THEN {next}
             ELSE {next} \cup walk_onto_own(p, color, next, delta)

\* the `loop` of the ROOK | BISHOP | QUEEN arm, from `check` along `delta`
RECURSIVE walk(_, _, _, _)
walk(p, color, check, delta) ==
    LET next == Coordinate(check[1] + delta[1], check[2] + delta[2])
    IN  IF ~on_board(next) THEN {}
        ELSE IF next \in DOMAIN p
             THEN (IF color # p[next].color THEN {next} ELSE {})
             ELSE {next} \cup walk(p, color, next, delta)

slider_deltas(kind) ==
    IF kind = "ROOK" THEN ROOK_PATTERN
    ELSE IF kind = "BISHOP" THEN BISHOP_PATTERN
    ELSE ROOK_PATTERN \cup BISHOP_PATTERN

\* the PAWN arm: a capture square counts only while an opposing piece is on it
pawn_looking_at(p, piece) ==
    { sq \in { Coordinate(piece.square[1] + dx, piece.square[2] + pawn_direction(piece.color)) :
                 dx \in {1, -1} } :
        /\ ~(sq[1] < 0 \/ sq[1] > 7)
        /\ sq \in DOMAIN p
        /\ piece.color # p[sq].color }

looking_at(p, piece) ==
    CASE piece.kind = "KING"   -> step_targets(p, piece, KING_DELTAS)
      [] piece.kind \in {"ROOK", "BISHOP", "QUEEN"} ->
             UNION { walk(p, piece.color, piece.square, d) : d \in slider_deltas(piece.kind) }
      [] piece.kind = "KNIGHT" -> step_targets(p, piece, KNIGHT_PATTERN)
      [] piece.kind = "PAWN"   -> pawn_looking_at(p, piece)
      [] OTHER -> {}

(***************************************************************************)
(* Board::is_checked                                                       *)
(***************************************************************************)
is_checked(p, piece) ==
    \E sq \in DOMAIN p :
        /\ p[sq].color # piece.color
        /\ piece.square \in looking_at(p, p[sq])

(***************************************************************************)
(* Board::get_valid_moves.  b is a Board record.                           *)
(***************************************************************************)
\* mutant of pawn_pushes: a pawn that has moved may step two squares
pawn_pushes_ignoring_moved(p, piece) ==
    IF piece.kind # "PAWN" THEN {}
    ELSE LET direction == pawn_direction(piece.color)
             following == Coordinate(piece.square[1], piece.square[2] + direction)
             following_following == Coordinate(following[1], following[2] + direction)
         IN  IF following \notin DOMAIN p /\ following[2] >= 0 /\ following[2] <= 7
             THEN {following} \cup
                  (IF /\ following_following \notin DOMAIN p
                      /\ following_following[2] >= 0 /\ following_following[2] <= 7
                   THEN {following_following} ELSE {})
             ELSE {}

\* mutant of pawn_pushes: the rank of the square ahead is not tested
pawn_pushes_off_board(p, piece) ==
    IF piece.kind # "PAWN" THEN {}
    ELSE LET direction == pawn_direction(piece.color)
             following == Coordinate(piece.square[1], piece.square[2] + direction)
             following_following == Coordinate(following[1], following[2] + direction)
         IN  IF following \notin DOMAIN p
             THEN {following} \cup
                  (IF ~piece.moved /\ following_following \notin DOMAIN p
                   THEN {following_following} ELSE {})
             ELSE {}

\* lines 171-181: the straight pushes of a pawn
pawn_pushes(p, piece) ==
    IF piece.kind # "PAWN" THEN {}
    ELSE LET direction == pawn_direction(piece.color)
             following == Coordinate(piece.square[1], piece.square[2] + direction)
             following_following == Coordinate(following[1], following[2] + direction)
         IN  IF following \notin DOMAIN p /\ following[2] >= 0 /\ following[2] <= 7
             THEN {following} \cup
                  (IF /\ ~piece.moved
                      /\ following_following \notin DOMAIN p
                      /\ following_following[2] >= 0 /\ following_following[2] <= 7
                   THEN {following_following} ELSE {})
             ELSE {}

potential_moves(p, piece) == looking_at(p, piece) \cup pawn_pushes(p, piece)

\* lines 186-190: the clone with the piece put on the candidate square
potential_board(p, piece, potential_move) ==
    insert(remove(p, piece.square), potential_move,
           [piece EXCEPT !.square = potential_move])

\* lines 191-192: the kings of that color the find_map can return
kings_of(p, color) ==
    { p[sq] : sq \in { s \in DOMAIN p : p[s].kind = "KING" /\ p[s].color = color } }

\* line 193: panic!("no king") while filtering some candidate
no_king_panic(p, piece) ==
    \E m \in potential_moves(p, piece) :
        kings_of(potential_board(p, piece, m), piece.color) = {}

\* lines 184-195: the self-check filter
safe_moves(p, piece) ==
    { m \in potential_moves(p, piece) :
        LET pb == potential_board(p, piece, m)
        IN  \E king \in kings_of(pb, piece.color) : ~is_checked(pb, king) }

\* lines 204-213: the scan beyond the castling destination for the rook
RECURSIVE rook_beyond(_, _, _, _)
rook_beyond(p, piece, direction, distance) ==
    LET file == piece.square[1] + direction * distance
    IN  IF file < 8 /\ file >= 0
        THEN LET sq == Coordinate(piece.square[1] + direction * (distance + 1), piece.square[2])
             IN  IF sq \notin DOMAIN p
                 THEN rook_beyond(p, piece, direction, distance + 1)
                 ELSE /\ p[sq].kind = "ROOK"
                      /\ p[sq].color = piece.color
                      /\ ~p[sq].moved
        ELSE FALSE

\* line 202: the synthetic king on the castling destination
synthetic_king(piece, direction) ==
    Piece("KING", piece.color,
          Coordinate(piece.square[1] + direction * 2, piece.square[2]), FALSE)

\* lines 197-215: the castling destinations
castling_moves(p, piece, moves) ==
    IF piece.kind = "KING" /\ ~piece.moved /\ ~is_checked(p, piece)
    THEN { Coordinate(piece.square[1] + direction * 2, piece.square[2]) :
             direction \in { d \in {-1, 1} :
                /\ Coordinate(piece.square[1] + d, piece.square[2]) \in moves
                /\ Coordinate(piece.square[1] + d * 2, piece.square[2]) \notin DOMAIN p
                /\ ~is_checked(p, synthetic_king(piece, d))
                /\ rook_beyond(p, piece, d, 2) } }
    ELSE {}

\* mutant of en_pessant_moves: the eligible ranks of the two colors swapped
en_pessant_moves_swapped_ranks(b, piece) ==
    IF /\ piece.kind = "PAWN"
       /\ b.en_pessant_file # None
       /\ piece.square[2] = (IF piece.color = "WHITE" THEN 3 ELSE 4)
    THEN { Coordinate(piece.square[1] + delta, piece.square[2] + pawn_direction(piece.color)) :
             delta \in { d \in {-1, 1} : unwrap(b.en_pessant_file) = piece.square[1] + d } }
    ELSE {}

\* lines 216-224: the en-passant destinations
en_pessant_moves(b, piece) ==
    IF /\ piece.kind = "PAWN"
       /\ b.en_pessant_file # None
       /\ piece.square[2] = (IF piece.color = "WHITE" THEN 4 ELSE 3)
    THEN { Coordinate(piece.square[1] + delta, piece.square[2] + pawn_direction(piece.color)) :
             delta \in { d \in {-1, 1} : unwrap(b.en_pessant_file) = piece.square[1] + d } }
    ELSE {}

get_valid_moves(b, piece) ==
    LET moves == safe_moves(b.pieces, piece)
    IN  moves \cup castling_moves(b.pieces, piece, moves) \cup en_pessant_moves(b, piece)

\* mutant of self_after_get_valid_moves: the simulation of lines 186-190 run
\* on self, which keeps the last candidate
self_after_simulation_in_place(b, piece) ==
    LET candidates == potential_moves(b.pieces, piece)
    IN  IF candidates = {} THEN b
        ELSE [b EXCEPT !.pieces =
                 potential_board(b.pieces, piece, CHOOSE m \in candidates : TRUE)]

\* lines 169, 186: `self` once get_valid_moves has returned.  The receiver is
\* &self, and the simulation of lines 187-190 mutates potential_board, a
\* clone of it
self_after_get_valid_moves(b, piece) == b

(***************************************************************************)
(* Board::has_moves                                                        *)
(***************************************************************************)
has_moves(b, color) ==
    \E sq \in DOMAIN b.pieces :
        /\ b.pieces[sq].color = color
        /\ get_valid_moves(b, b.pieces[sq]) # {}

\* has_moves reaches the panic of get_valid_moves
has_moves_panic(b, color) ==
    \E sq \in DOMAIN b.pieces :
        /\ b.pieces[sq].color = color
        /\ no_king_panic(b.pieces, b.pieces[sq])

(***************************************************************************)
(* Board::move_piece                                                       *)
(***************************************************************************)
\* mutants of moved_piece: the square field is left stale; the moved flag is
\* not set
moved_piece_stale_square(p, from, to) == [p[from] EXCEPT !.moved = TRUE]

moved_piece_unflagged(p, from, to) == [p[from] EXCEPT !.square = to]

\* mutant of moved_piece: the moved flag is set for every kind but a pawn
moved_piece_pawn_unflagged(p, from, to) ==
    [p[from] EXCEPT !.moved = (p[from].kind # "PAWN"), !.square = to]

\* lines 230-232: the piece taken from `from`, marked moved, put on `to`
moved_piece(p, from, to) == [p[from] EXCEPT !.moved = TRUE, !.square = to]

\* lines 233-235
relocate(p, from, to) == remove(insert(p, to, moved_piece(p, from, to)), from)

\* mutant of en_pessant_capture: file and rank of the removed square swapped
en_pessant_capture_swapped(p, piece, capture, from, to) ==
    IF piece.kind = "PAWN" /\ ~capture /\ from[1] # to[1]
    THEN remove(p, Coordinate(from[1], to[2]))
    ELSE p

\* lines 249-251: the en-passant capture
en_pessant_capture(p, piece, capture, from, to) ==
    IF piece.kind = "PAWN" /\ ~capture /\ from[1] # to[1]
    THEN remove(p, Coordinate(to[1], from[2]))
    ELSE p

\* mutant of en_pessant_after: any pawn step sets the file
en_pessant_after_any_step(piece, from, to) ==
    IF piece.kind = "PAWN" /\ abs(to[2] - from[2]) >= 1
    THEN Some(piece.square[1])
    ELSE None

\* lines 253-257: the en_pessant_file the move leaves
en_pessant_after(piece, from, to) ==
    IF piece.kind = "PAWN" /\ abs(to[2] - from[2]) > 1
    THEN Some(piece.square[1])
    ELSE None

RECURSIVE move_piece(_, _, _)
RECURSIVE castle_rook(_, _, _, _, _)

\* lines 240-247: the scan from `to` for the rook, and the nested move_piece
castle_rook(b, position, direction, from, to) ==
    IF position < 8 /\ position >= 0
    THEN LET coordinate == Coordinate(position + direction, to[2])
         IN  IF coordinate \notin DOMAIN b.pieces
             THEN castle_rook(b, position + direction, direction, from, to)
             ELSE move_piece(b, coordinate, Coordinate(from[1] + direction, from[2]))
    ELSE b

\* mutant of castling_follow_through: the rook is left where it stands
castling_follow_through_no_rook(b, piece, from, to) == b

\* lines 237-248: the castling follow-through
castling_follow_through(b, piece, from, to) ==
    LET distance == to[1] - from[1]
    IN  IF piece.kind = "KING" /\ abs(distance) > 1
        THEN castle_rook(b, to[1], signum(distance), from, to)
        ELSE b

move_piece(b, from, to) ==
    LET piece   == moved_piece(b.pieces, from, to)
        capture == to \in DOMAIN b.pieces
        b1      == [b EXCEPT !.pieces = relocate(b.pieces, from, to)]
        b2      == castling_follow_through(b1, piece, from, to)
    IN  [b2 EXCEPT !.pieces = en_pessant_capture(b2.pieces, piece, capture, from, to),
                   !.en_pessant_file = en_pessant_after(piece, from, to)]

(***************************************************************************)
(* Board::flip_on_move                                                     *)
(***************************************************************************)
\* mutant of flip_on_move: the side to move stays the same
flip_on_move_same_side(b) == [b EXCEPT !.turn_number = b.turn_number + 1]

flip_on_move(b) ==
    [b EXCEPT !.turn_number = b.turn_number + 1,
              !.on_move = IF b.on_move = "WHITE" THEN "BLACK" ELSE "WHITE"]

(***************************************************************************)
(* The state.  Board is the BoardResource.                                 *)
(***************************************************************************)
Board == [pieces |-> pieces, on_move |-> on_move, turn_number |-> turn_number,
          en_pessant_file |-> en_pessant_file]

(***************************************************************************)
(* Games played from Board::new(), each move a destination that            *)
(* get_valid_moves offers (legal_game), none of them a promotion.  The     *)
(* exploration starts from Board::new() and from the positions these games *)
(* end in: the opening alone needs many plies to reach a castling, an      *)
(* en-passant capture, a promotion, a mate by a pawn's double step or a    *)
(* stalemate.                                                              *)
(***************************************************************************)
\* drag_piece's commit (piece.rs lines 201-202) of the moves game[i..n] on b
RECURSIVE replay(_, _, _, _)
replay(b, game, i, n) ==
    IF i > n THEN b
    ELSE LET after == flip_on_move(move_piece(b, game[i][1], game[i][2]))
         IN  IF after.pieces = << >> THEN after
             ELSE replay(after, game, i + 1, n)

\* every move of the game is one drag_piece can commit (lines 185, 194, 200)
legal_game(game) ==
    \A n \in 1..Len(game) :
        LET b == replay(new, game, 1, n - 1)
        IN  /\ game[n][1] \in DOMAIN b.pieces
            /\ b.pieces[game[n][1]].color = b.on_move
            /\ game[n][2] \in get_valid_moves(b, b.pieces[game[n][1]])

\* the move_piece call that ended the game
last_of(game) ==
    LET b == replay(new, game, 1, Len(game) - 1)
        m == game[Len(game)]
    IN  [from |-> m[1], to |-> m[2], piece |-> b.pieces[m[1]],
         capture |-> m[2] \in DOMAIN b.pieces]

\* Ends with White to move: the white king and both white rooks at home and
\* unmoved, a black knight on (2, 0) beside the king, black pawns on (6, 1)
\* and (1, 3).
castling_game ==
    <<
       <<<<1, 0>>, <<2, 2>>>>, <<<<3, 6>>, <<3, 4>>>>, <<<<2, 2>>, <<3, 4>>>>, <<<<4, 7>>, <<2, 5>>>>,
       <<<<3, 4>>, <<4, 6>>>>, <<<<2, 5>>, <<6, 1>>>>, <<<<4, 6>>, <<2, 7>>>>, <<<<6, 1>>, <<5, 1>>>>,
       <<<<2, 7>>, <<0, 6>>>>, <<<<5, 1>>, <<5, 0>>>>, <<<<4, 0>>, <<5, 0>>>>, <<<<2, 6>>, <<2, 5>>>>,
       <<<<0, 6>>, <<2, 5>>>>, <<<<1, 7>>, <<2, 5>>>>, <<<<5, 0>>, <<5, 6>>>>, <<<<2, 5>>, <<1, 3>>>>,
       <<<<5, 6>>, <<6, 7>>>>, <<<<1, 3>>, <<2, 1>>>>, <<<<6, 7>>, <<7, 6>>>>, <<<<5, 7>>, <<0, 2>>>>,
       <<<<1, 1>>, <<0, 2>>>>, <<<<0, 7>>, <<0, 2>>>>, <<<<4, 1>>, <<4, 2>>>>, <<<<0, 2>>, <<4, 2>>>>,
       <<<<3, 1>>, <<4, 2>>>>, <<<<7, 7>>, <<7, 6>>>>, <<<<6, 0>>, <<7, 2>>>>, <<<<7, 6>>, <<7, 2>>>>,
       <<<<2, 0>>, <<3, 1>>>>, <<<<7, 2>>, <<4, 2>>>>, <<<<3, 1>>, <<4, 2>>>>, <<<<2, 1>>, <<3, 3>>>>,
       <<<<4, 2>>, <<5, 3>>>>, <<<<1, 6>>, <<1, 4>>>>, <<<<5, 3>>, <<7, 5>>>>, <<<<6, 6>>, <<6, 4>>>>,
       <<<<7, 5>>, <<6, 6>>>>, <<<<3, 3>>, <<4, 1>>>>, <<<<6, 6>>, <<7, 7>>>>, <<<<1, 4>>, <<1, 3>>>>,
       <<<<7, 7>>, <<6, 6>>>>, <<<<6, 4>>, <<6, 3>>>>, <<<<6, 6>>, <<7, 7>>>>, <<<<6, 3>>, <<6, 2>>>>,
       <<<<7, 7>>, <<1, 1>>>>, <<<<6, 2>>, <<6, 1>>>>, <<<<1, 1>>, <<2, 0>>>>, <<<<4, 1>>, <<2, 0>>>>
    >>

\* Ends with Black to move: white pawns on (2, 4) and (4, 4) beside the file
\* of the unmoved black pawn on (3, 6), the white king on (4, 1) behind one
\* of them on the file of the black rook on (4, 7), a white pawn on (0, 6).
en_pessant_game ==
    <<
       <<<<6, 0>>, <<5, 2>>>>, <<<<4, 6>>, <<4, 4>>>>, <<<<5, 2>>, <<4, 4>>>>, <<<<4, 7>>, <<4, 4>>>>,
       <<<<4, 1>>, <<4, 3>>>>, <<<<4, 4>>, <<7, 1>>>>, <<<<2, 1>>, <<2, 3>>>>, <<<<7, 1>>, <<6, 1>>>>,
       <<<<7, 0>>, <<7, 6>>>>, <<<<6, 1>>, <<5, 1>>>>, <<<<7, 6>>, <<6, 6>>>>, <<<<5, 7>>, <<6, 6>>>>,
       <<<<4, 0>>, <<5, 1>>>>, <<<<6, 6>>, <<1, 1>>>>, <<<<5, 1>>, <<0, 6>>>>, <<<<1, 1>>, <<2, 0>>>>,
       <<<<0, 6>>, <<1, 6>>>>, <<<<2, 0>>, <<3, 1>>>>, <<<<1, 6>>, <<1, 7>>>>, <<<<0, 7>>, <<1, 7>>>>,
       <<<<3, 0>>, <<3, 1>>>>, <<<<1, 7>>, <<1, 0>>>>, <<<<0, 1>>, <<0, 3>>>>, <<<<1, 0>>, <<5, 0>>>>,
       <<<<0, 0>>, <<5, 0>>>>, <<<<2, 6>>, <<2, 5>>>>, <<<<5, 0>>, <<5, 6>>>>, <<<<6, 7>>, <<5, 5>>>>,
       <<<<5, 6>>, <<5, 5>>>>, <<<<7, 7>>, <<4, 7>>>>, <<<<5, 5>>, <<2, 5>>>>, <<<<2, 7>>, <<0, 5>>>>,
       <<<<2, 5>>, <<0, 5>>>>, <<<<4, 7>>, <<4, 5>>>>, <<<<4, 3>>, <<4, 4>>>>, <<<<4, 5>>, <<0, 5>>>>,
       <<<<3, 1>>, <<4, 1>>>>, <<<<3, 7>>, <<2, 6>>>>, <<<<2, 3>>, <<2, 4>>>>, <<<<0, 5>>, <<4, 5>>>>,
       <<<<0, 3>>, <<0, 4>>>>, <<<<2, 6>>, <<3, 7>>>>, <<<<0, 4>>, <<0, 5>>>>, <<<<4, 5>>, <<4, 7>>>>,
       <<<<0, 5>>, <<0, 6>>>>
    >>

\* Ends with Black to move: the white king on (0, 2) with every square around
\* it but (1, 3) attacked by the black queen on (2, 1), the unmoved black pawn
\* on (4, 6) shielding it from the black bishop on (5, 7), a white pawn on
\* (5, 4).
mate_game ==
    <<
       <<<<4, 1>>, <<4, 3>>>>, <<<<0, 6>>, <<0, 5>>>>, <<<<5, 0>>, <<0, 5>>>>, <<<<5, 6>>, <<5, 4>>>>,
       <<<<0, 5>>, <<1, 6>>>>, <<<<5, 4>>, <<4, 3>>>>, <<<<4, 0>>, <<4, 3>>>>, <<<<0, 7>>, <<0, 1>>>>,
       <<<<4, 3>>, <<7, 6>>>>, <<<<0, 1>>, <<1, 1>>>>, <<<<7, 6>>, <<6, 6>>>>, <<<<1, 1>>, <<2, 1>>>>,
       <<<<3, 0>>, <<2, 1>>>>, <<<<7, 7>>, <<7, 1>>>>, <<<<1, 6>>, <<2, 7>>>>, <<<<7, 1>>, <<7, 0>>>>,
       <<<<2, 7>>, <<3, 6>>>>, <<<<7, 0>>, <<6, 0>>>>, <<<<6, 6>>, <<6, 7>>>>, <<<<6, 0>>, <<6, 1>>>>,
       <<<<6, 7>>, <<6, 1>>>>, <<<<4, 7>>, <<3, 6>>>>, <<<<2, 1>>, <<1, 2>>>>, <<<<3, 6>>, <<3, 1>>>>,
       <<<<6, 1>>, <<6, 2>>>>, <<<<3, 1>>, <<2, 0>>>>, <<<<6, 2>>, <<2, 6>>>>, <<<<3, 7>>, <<2, 6>>>>,
       <<<<0, 0>>, <<0, 5>>>>, <<<<1, 7>>, <<0, 5>>>>, <<<<5, 1>>, <<5, 3>>>>, <<<<0, 5>>, <<1, 3>>>>,
       <<<<1, 2>>, <<1, 3>>>>, <<<<2, 0>>, <<1, 0>>>>, <<<<1, 3>>, <<0, 3>>>>, <<<<1, 0>>, <<2, 1>>>>,
       <<<<0, 3>>, <<0, 2>>>>, <<<<2, 6>>, <<3, 7>>>>, <<<<5, 3>>, <<5, 4>>>>
    >>

\* Ends with Black to move: the white king on (7, 0) with every square around
\* it attacked by the black queen on (6, 2), the white pawn on (3, 4) pinned
\* to it by the black bishop on (0, 7), the unmoved black pawn on (4, 6).
stalemate_game ==
    <<
       <<<<3, 1>>, <<3, 3>>>>, <<<<0, 6>>, <<0, 4>>>>, <<<<4, 0>>, <<0, 4>>>>, <<<<6, 6>>, <<6, 4>>>>,
       <<<<0, 4>>, <<6, 4>>>>, <<<<0, 7>>, <<0, 1>>>>, <<<<6, 4>>, <<6, 7>>>>, <<<<0, 1>>, <<1, 1>>>>,
       <<<<6, 7>>, <<7, 6>>>>, <<<<1, 1>>, <<1, 0>>>>, <<<<7, 6>>, <<5, 6>>>>, <<<<7, 7>>, <<7, 1>>>>,
       <<<<0, 0>>, <<1, 0>>>>, <<<<7, 1>>, <<7, 0>>>>, <<<<5, 6>>, <<5, 7>>>>, <<<<4, 7>>, <<5, 7>>>>,
       <<<<1, 0>>, <<1, 6>>>>, <<<<5, 7>>, <<5, 1>>>>, <<<<1, 6>>, <<2, 6>>>>, <<<<7, 0>>, <<6, 0>>>>,
       <<<<3, 3>>, <<3, 4>>>>, <<<<6, 0>>, <<6, 1>>>>, <<<<5, 0>>, <<6, 1>>>>, <<<<5, 1>>, <<6, 1>>>>,
       <<<<2, 6>>, <<3, 6>>>>, <<<<1, 7>>, <<3, 6>>>>, <<<<4, 1>>, <<4, 2>>>>, <<<<6, 1>>, <<2, 1>>>>,
       <<<<3, 0>>, <<4, 0>>>>, <<<<2, 1>>, <<2, 0>>>>, <<<<4, 0>>, <<5, 1>>>>, <<<<2, 0>>, <<4, 2>>>>,
       <<<<5, 1>>, <<6, 1>>>>, <<<<2, 7>>, <<1, 6>>>>, <<<<6, 1>>, <<7, 0>>>>, <<<<1, 6>>, <<0, 7>>>>,
       <<<<7, 0>>, <<7, 1>>>>, <<<<4, 2>>, <<5, 3>>>>, <<<<7, 1>>, <<7, 0>>>>, <<<<3, 6>>, <<4, 4>>>>,
       <<<<7, 0>>, <<6, 0>>>>, <<<<4, 4>>, <<5, 2>>>>, <<<<6, 0>>, <<7, 0>>>>, <<<<5, 2>>, <<6, 0>>>>,
       <<<<7, 0>>, <<6, 0>>>>, <<<<5, 3>>, <<6, 2>>>>, <<<<6, 0>>, <<7, 0>>>>
    >>

castling_position == replay(new, castling_game, 1, Len(castling_game))

en_pessant_position == replay(new, en_pessant_game, 1, Len(en_pessant_game))

mate_position == replay(new, mate_game, 1, Len(mate_game))

stalemate_position == replay(new, stalemate_game, 1, Len(stalemate_game))

\* the board of spawn_board, and the boards the games lead to (a game counts
\* only if drag_piece would have committed each of its moves)
starts ==
    { <<new, None, NewPly, 0>> }
    \cup { <<castling_position, Some(last_of(castling_game)), MaxPly, Len(castling_game)>> :
             ok \in { g \in {castling_game} : legal_game(g) } }
    \cup { <<en_pessant_position, Some(last_of(en_pessant_game)), MaxPly, Len(en_pessant_game)>> :
             ok \in { g \in {en_pessant_game} : legal_game(g) } }
    \cup { <<mate_position, Some(last_of(mate_game)), EndPly, Len(mate_game)>> :
             ok \in { g \in {mate_game} : legal_game(g) } }
    \cup { <<stalemate_position, Some(last_of(stalemate_game)), EndPly, Len(stalemate_game)>> :
             ok \in { g \in {stalemate_game} : legal_game(g) } }

Init ==
    /\ \E start \in starts :
          /\ pieces = start[1].pieces
          /\ on_move = start[1].on_move
          /\ turn_number = start[1].turn_number
          /\ en_pessant_file = start[1].en_pessant_file
          /\ last = start[2]
          /\ horizon = start[1].turn_number + start[3]
          /\ commits = start[4]
    /\ allow_drag = TRUE
    /\ promotion_square = None
    /\ promotion_options = {}
    /\ pc = "drag_piece"
    /\ everMoved = { sq \in DOMAIN pieces : pieces[sq].moved }

(***************************************************************************)
(* History.                                                                *)
(***************************************************************************)
\* the squares of q whose occupant is not the occupant it has in p
arrived(p, q) ==
    { sq \in DOMAIN q :
        \/ sq \notin DOMAIN p
        \/ p[sq].kind # q[sq].kind
        \/ p[sq].color # q[sq].color }

\* everMoved after a move_piece call that turns p into q
moved_after(p, q) ==
    { sq \in everMoved : sq \in DOMAIN q /\ sq \notin arrived(p, q) } \cup arrived(p, q)

(***************************************************************************)
(* drag_piece (piece.rs), the second system of the chain.                  *)
(***************************************************************************)
\* mutant of draggable: a sprite of either color is picked up
draggable_any_color(sprite) == sprite.color \in PieceColor

\* line 185: only sprites of the side to move are looked at
draggable(sprite) == sprite.color = on_move

\* lines 194-203: the dragged sprite is released on `to`, a valid move
DragPiece ==
    /\ pc = "drag_piece"
    /\ allow_drag
    /\ turn_number < horizon
    /\ \E sq \in DOMAIN pieces :
          LET sprite == pieces[sq]
              from   == sprite.square
          IN  /\ draggable(sprite)
              /\ from \in DOMAIN pieces
              /\ ~no_king_panic(pieces, pieces[from])
              /\ \E to \in get_valid_moves(Board, pieces[from]) :
                    LET b == flip_on_move(move_piece(Board, from, to))
                    IN  /\ pieces' = b.pieces
                        /\ on_move' = b.on_move
                        /\ turn_number' = b.turn_number
                        /\ en_pessant_file' = b.en_pessant_file
                        /\ last' = Some([from |-> from, to |-> to,
                                         piece |-> pieces[from],
                                         capture |-> to \in DOMAIN pieces])
                        /\ everMoved' = moved_after(pieces, b.pieces)
    /\ commits' = commits + 1
    /\ pc' = "promotion_chooser"
    /\ UNCHANGED <<allow_drag, promotion_square, promotion_options, horizon>>

\* every other path through drag_piece: dragging is not allowed, there is no
\* cursor, nothing is dragged or released, or the release is on no valid move
\* (lines 178-193, 196, 200); with a sprite dragged, line 194 has asked
\* get_valid_moves
DragNothing ==
    /\ pc = "drag_piece"
    /\ \E self \in {Board} \cup
                   { self_after_get_valid_moves(Board, pieces[sq]) :
                       sq \in { s \in DOMAIN pieces :
                                  /\ allow_drag
                                  /\ draggable(pieces[s])
                                  /\ ~no_king_panic(pieces, pieces[s]) } } :
          /\ pieces' = self.pieces
          /\ on_move' = self.on_move
          /\ turn_number' = self.turn_number
          /\ en_pessant_file' = self.en_pessant_file
    /\ pc' = "promotion_chooser"
    /\ UNCHANGED <<allow_drag, promotion_square, promotion_options, last,
                   everMoved, commits, horizon>>

(***************************************************************************)
(* promotion_chooser (piece.rs), the third system of the chain.            *)
(***************************************************************************)
PROMOTION_KINDS == {"QUEEN", "ROOK", "BISHOP", "KNIGHT"}

\* lines 101-137 for one rank: the first file holding a pawn, if any
first_pawn(p, rank) ==
    LET files == { f \in 0..7 : Coordinate(f, rank) \in DOMAIN p
                                /\ p[Coordinate(f, rank)].kind = "PAWN" }
    IN  IF files = {} THEN None
        ELSE Some(Coordinate(CHOOSE f \in files : \A g \in files : f <= g, rank))

\* mutant of scan_rank: AllowDrag is left as it is
scan_rank_allows_drag(st, rank) ==
    LET found == first_pawn(st.pieces, rank)
    IN  IF found = None THEN st
        ELSE LET position == unwrap(found)
                 occupying == st.pieces[position]
             IN  [pieces |-> remove(st.pieces, position),
                  allow_drag |-> st.allow_drag,
                  promotion_square |-> Some(position),
                  promotion_options |-> st.promotion_options \cup
                       { [kind |-> k, color |-> occupying.color] : k \in PROMOTION_KINDS }]

\* mutant of scan_rank: the pawn is not removed
scan_rank_keeps_pawn(st, rank) ==
    LET found == first_pawn(st.pieces, rank)
    IN  IF found = None THEN st
        ELSE [st EXCEPT !.allow_drag = FALSE, !.promotion_square = found]

\* lines 103-136 for one rank, on the state st = [pieces, allow_drag,
\* promotion_square, promotion_options]
scan_rank(st, rank) ==
    LET found == first_pawn(st.pieces, rank)
    IN  IF found = None THEN st
        ELSE LET position == unwrap(found)
                 occupying == st.pieces[position]
             IN  [pieces |-> remove(st.pieces, position),
                  allow_drag |-> FALSE,
                  promotion_square |-> Some(position),
                  promotion_options |-> st.promotion_options \cup
                       { [kind |-> k, color |-> occupying.color] : k \in PROMOTION_KINDS }]

\* lines 100-138: rank 7, then rank 0
scan_back_ranks(st) == scan_rank(scan_rank(st, 7), 0)

\* line 94: the piece put on the promotion square
promoted_piece(option, square) == Piece(option.kind, option.color, square, FALSE)

\* lines 99-139: no promotion is pending
PromotionScan ==
    /\ pc = "promotion_chooser"
    /\ promotion_square = None
    /\ LET st == scan_back_ranks([pieces |-> pieces, allow_drag |-> allow_drag,
                                  promotion_square |-> promotion_square,
                                  promotion_options |-> promotion_options])
       IN  /\ pieces' = st.pieces
           /\ allow_drag' = st.allow_drag
           /\ promotion_square' = st.promotion_square
           /\ promotion_options' = st.promotion_options
           /\ everMoved' = everMoved \cap DOMAIN st.pieces
    /\ pc' = "drag_piece"
    /\ UNCHANGED <<on_move, turn_number, en_pessant_file, last, commits, horizon>>

\* lines 76-97: a click on the promotion square picks the nearest visible option
PromotionSelect ==
    /\ pc = "promotion_chooser"
    /\ promotion_square # None
    /\ \E min_piece \in promotion_options :
          pieces' = insert(pieces, unwrap(promotion_square),
                           promoted_piece(min_piece, unwrap(promotion_square)))
    /\ promotion_options' = {}
    /\ allow_drag' = TRUE
    /\ promotion_square' = None
    /\ everMoved' = everMoved \ {unwrap(promotion_square)}
    /\ pc' = "drag_piece"
    /\ UNCHANGED <<on_move, turn_number, en_pessant_file, last, commits, horizon>>

\* lines 77-79: the early returns while a promotion is pending
PromotionWait ==
    /\ pc = "promotion_chooser"
    /\ promotion_square # None
    /\ pc' = "drag_piece"
    /\ UNCHANGED <<pieces, on_move, turn_number, en_pessant_file, allow_drag,
                   promotion_square, promotion_options, last, everMoved, commits,
                   horizon>>

(***************************************************************************)
(* update_outline (board.rs) runs in every frame, unordered with the       *)
(* chain, and asks has_moves(on_move): with no king of that color the      *)
(* program panics.                                                         *)
(***************************************************************************)
Panic ==
    /\ pc # "panicked"
    /\ has_moves_panic(Board, on_move)
    /\ pc' = "panicked"
    /\ UNCHANGED <<pieces, on_move, turn_number, en_pessant_file, allow_drag,
                   promotion_square, promotion_options, last, everMoved, commits,
                   horizon>>

Next ==
    \/ DragPiece
    \/ DragNothing
    \/ PromotionScan
    \/ PromotionSelect
    \/ PromotionWait
    \/ Panic

Spec == Init /\ [][Next]_vars

(***************************************************************************)
(* Vocabulary of the properties.                                           *)
(***************************************************************************)
\* a position in which drag_piece may commit a move
Playable == pc = "drag_piece" /\ allow_drag

Committed == last # None

LastMove == unwrap(last)

\* the last committed move was a pawn's double step
LastDoubleStep ==
    /\ Committed
    /\ LastMove.piece.kind = "PAWN"
    /\ abs(LastMove.to[2] - LastMove.from[2]) = 2

\* the last committed move was a castling
LastCastling ==
    /\ Committed
    /\ LastMove.piece.kind = "KING"
    /\ abs(LastMove.to[1] - LastMove.from[1]) = 2

\* the last committed move took a pawn diagonally onto an empty square
LastEnPassant ==
    /\ Committed
    /\ LastMove.piece.kind = "PAWN"
    /\ ~LastMove.capture
    /\ LastMove.from[1] # LastMove.to[1]

\* the rank a pawn of that color promotes on
back_rank(color) == IF color = "WHITE" THEN 7 ELSE 0

\* the last committed move took a pawn onto the opposing back rank
LastReachedBackRank ==
    /\ Committed
    /\ LastMove.piece.kind = "PAWN"
    /\ LastMove.to[2] = back_rank(LastMove.piece.color)

\* the destinations get_valid_moves offers to the piece on sq
offered(sq) == get_valid_moves(Board, pieces[sq])

\* the king of that color is attacked in position p
king_attacked(p, color) == \E king \in kings_of(p, color) : is_checked(p, king)

(***************************************************************************)
(* C1.  No destination that get_valid_moves offers to a piece of the side  *)
(* to move leaves, once move_piece has committed it, the mover's own king  *)
(* checked.  The code offers en-passant destinations without the           *)
(* self-check filter and tests the castling destination on a board where   *)
(* a pawn does not look at an empty square, so this fails.                 *)
(***************************************************************************)
C1_NoOfferedMoveLeavesOwnKingChecked ==
    Playable =>
        \A sq \in DOMAIN pieces :
            pieces[sq].color = on_move =>
                \A d \in offered(sq) :
                    ~king_attacked(move_piece(Board, pieces[sq].square, d).pieces, on_move)

(***************************************************************************)
(* C2.  Every entry (coord, piece) of Board.pieces has piece.square =      *)
(* coord, after every committed move (castling's nested rook move and      *)
(* en-passant captures included) and every promotion re-insertion.         *)
(***************************************************************************)
C2_SquareEqualsKey == \A sq \in DOMAIN pieces : pieces[sq].square = sq

\* a promoted piece has been re-inserted and play has gone on from there
C2_Witness ==
    /\ Committed
    /\ ~LastReachedBackRank
    /\ \E sq \in DOMAIN pieces :
          /\ pieces[sq].kind \in PROMOTION_KINDS
          /\ ~pieces[sq].moved
          /\ sq[2] = back_rank(pieces[sq].color)

(***************************************************************************)
(* C4.  After a top-level move_piece(from, to), en_pessant_file is         *)
(* Some(to.file) if the moved piece is a pawn whose rank changed by two    *)
(* and None otherwise (a castling's nested rook move included), so a       *)
(* value never survives the next move_piece call.                          *)
(***************************************************************************)
C4_EnPessantFileFollowsLastMove ==
    Committed =>
        en_pessant_file = (IF LastDoubleStep THEN Some(LastMove.to[1]) ELSE None)

\* a double step has set the file
C4_Witness == LastDoubleStep /\ en_pessant_file = Some(LastMove.to[1])

(***************************************************************************)
(* C3.  The en-passant window.  Right after a pawn's double step onto file *)
(* f, every opposing pawn beside it (same rank, file f-1 or f+1) is        *)
(* offered the passed-over square; and whenever a pawn of the side to move *)
(* is offered an en-passant destination (a diagonal, empty square), the    *)
(* ply just before was the opponent's double step beside it, so once any   *)
(* other move has been committed the destination is no longer offered as   *)
(* an en-passant capture.                                                  *)
(***************************************************************************)
passed_over == Coordinate(LastMove.to[1], (LastMove.from[2] + LastMove.to[2]) \div 2)

\* sq holds a pawn of the other color beside the pawn that just double-stepped
BesideDoubleStep(sq) ==
    /\ pieces[sq].kind = "PAWN"
    /\ pieces[sq].color # LastMove.piece.color
    /\ sq[2] = LastMove.to[2]
    /\ abs(sq[1] - LastMove.to[1]) = 1

\* d is offered to the pawn on sq as an en-passant destination
EnPassantOffer(sq, d) ==
    /\ pieces[sq].kind = "PAWN"
    /\ d \in offered(sq)
    /\ d[1] # sq[1]
    /\ d \notin DOMAIN pieces

C5_EnPassantRemovesOnlyThePassedPawn ==
    [][ (turn_number' # turn_number /\ LastEnPassant') =>
            LET m      == unwrap(last')
                victim == Coordinate(m.to[1], m.from[2])
            IN  /\ victim \in DOMAIN pieces
                /\ pieces[victim].kind = "PAWN"
                /\ pieces[victim].color # m.piece.color
                /\ LastDoubleStep
                /\ LastMove.to = victim
                /\ DOMAIN pieces' = ((DOMAIN pieces) \ {m.from, victim}) \cup {m.to}
                /\ \A sq \in (DOMAIN pieces) \ {m.from, victim} : pieces'[sq] = pieces[sq]
                /\ pieces'[m.to].kind = "PAWN"
                /\ pieces'[m.to].color = m.piece.color ]_vars

\* an en-passant capture has just been committed
C5_Witness == LastEnPassant /\ pc = "promotion_chooser" /\ en_pessant_file = None

(***************************************************************************)
(* Castling destinations offered to the king on sq, and the rook found     *)
(* beyond the destination.                                                 *)
(***************************************************************************)
castling_offers(sq) ==
    IF pieces[sq].kind = "KING"
    THEN { d \in offered(sq) : abs(d[1] - sq[1]) = 2 }
    ELSE {}

\* the files of the occupied squares beyond square d, away from file f
occupied_beyond(p, f, d) ==
    { g \in 0..7 : (g - d[1]) * signum(d[1] - f) > 0 /\ Coordinate(g, d[2]) \in DOMAIN p }

\* the first occupied square beyond d, if there is one
first_beyond(p, f, d) ==
    LET files == occupied_beyond(p, f, d)
    IN  IF files = {} THEN None
        ELSE Some(Coordinate(CHOOSE g \in files :
                                \A k \in files : abs(g - d[1]) <= abs(k - d[1]), d[2]))

(***************************************************************************)
(* C6.  Whenever a castling destination is offered, the king is not in     *)
(* check standing on it: no opposing piece, pawns included, attacks it.    *)
(* The code asks is_checked with the destination still empty, where a      *)
(* pawn looks at no square, so this fails.                                 *)
(***************************************************************************)
C6_CastlingDestinationNotAttacked ==
    Playable =>
        \A sq \in DOMAIN pieces :
            pieces[sq].color = on_move =>
                \A d \in castling_offers(sq) :
                    ~king_attacked(potential_board(pieces, pieces[sq], d), on_move)

(***************************************************************************)
(* C7.  Whenever a castling destination is offered, every square strictly  *)
(* between the king and the castling rook is empty, the square next to     *)
(* the king included.  The code takes the next square from the king's      *)
(* legal moves, which hold captures too, so this fails.                    *)
(***************************************************************************)
C7_CastlingPathEmpty ==
    Playable =>
        \A sq \in DOMAIN pieces :
            pieces[sq].color = on_move =>
                \A d \in castling_offers(sq) :
                    LET rook == first_beyond(pieces, sq[1], d)
                    IN  rook # None =>
                            \A g \in 0..7 :
                                (g - sq[1]) * (g - unwrap(rook)[1]) < 0 =>
                                    Coordinate(g, sq[2]) \notin DOMAIN pieces

(***************************************************************************)
(* C8.  A castling destination is offered only to a king that is not       *)
(* checked and has moved = FALSE, and only when the first piece beyond the *)
(* destination is a rook of its color with moved = FALSE; and neither of   *)
(* the two has ever been moved by move_piece, not even back to its         *)
(* original square.                                                        *)
(***************************************************************************)
C8_CastlingOnlyWithUnmovedKingAndRook ==
    \A sq \in DOMAIN pieces :
        \A d \in castling_offers(sq) :
            LET rook == first_beyond(pieces, sq[1], d)
            IN  /\ ~is_checked(pieces, pieces[sq])
                /\ ~pieces[sq].moved
                /\ sq \notin everMoved
                /\ rook # None
                /\ pieces[unwrap(rook)].kind = "ROOK"
                /\ pieces[unwrap(rook)].color = pieces[sq].color
                /\ ~pieces[unwrap(rook)].moved
                /\ unwrap(rook) \notin everMoved

\* a rook that left its corner and came back: the way to it is clear and the
\* unmoved king is not checked, and castling towards it is not offered
C8_Witness ==
    \E sq \in DOMAIN pieces : \E corner \in {0, 7} :
        LET r == Coordinate(corner, sq[2])
        IN  /\ pieces[sq].kind = "KING"
            /\ ~pieces[sq].moved
            /\ ~is_checked(pieces, pieces[sq])
            /\ r \in DOMAIN pieces
            /\ pieces[r].kind = "ROOK"
            /\ pieces[r].color = pieces[sq].color
            /\ r \in everMoved
            /\ \A g \in 0..7 :
                   (g - sq[1]) * (g - corner) < 0 => Coordinate(g, sq[2]) \notin DOMAIN pieces
            /\ \A d \in castling_offers(sq) : (d[1] - sq[1]) * (corner - sq[1]) < 0
            /\ castling_offers(sq) # {}

(***************************************************************************)
(* C9.  After move_piece commits a castling (the king from (f, r) to       *)
(* (f+2d, r)), the king stands on (f+2d, r), the castling rook on          *)
(* (f+d, r), their original squares are empty and both have moved = TRUE.  *)
(***************************************************************************)
C9_CastlingMovesKingAndRook ==
    [][ (turn_number' # turn_number /\ LastCastling') =>
            LET m    == unwrap(last')
                d    == signum(m.to[1] - m.from[1])
                rook == first_beyond(pieces, m.from[1], m.to)
                next == Coordinate(m.from[1] + d, m.from[2])
            IN  /\ m.to = Coordinate(m.from[1] + 2 * d, m.from[2])
                /\ m.to \in DOMAIN pieces'
                /\ pieces'[m.to] = Piece("KING", m.piece.color, m.to, TRUE)
                /\ rook # None
                /\ pieces[unwrap(rook)].kind = "ROOK"
                /\ next \in DOMAIN pieces'
                /\ pieces'[next] = Piece("ROOK", m.piece.color, next, TRUE)
                /\ m.from \notin DOMAIN pieces'
                /\ unwrap(rook) \notin DOMAIN pieces' ]_vars

\* a castling has just been committed
C9_Witness == LastCastling /\ pc = "promotion_chooser"

(***************************************************************************)
(* C10.  As claimed: after move_piece has moved a pawn onto the opposing   *)
(* back rank, no pawn stands on the destination square.                    *)
(***************************************************************************)
C10_NoPawnOnDestinationAfterMovePiece ==
    LastReachedBackRank =>
        ~(LastMove.to \in DOMAIN pieces /\ pieces[LastMove.to].kind = "PAWN")

(***************************************************************************)
(* C10, amended.  move_piece leaves the pawn on the back rank square; the  *)
(* pawn is removed by promotion_chooser, the next system of the same       *)
(* update step.  So a pawn stands on a back rank only between the          *)
(* move_piece call that put it there and the next run of                   *)
(* promotion_chooser, and once promotion_chooser has run the destination   *)
(* holds no pawn: it is empty with the promotion pending, or holds the     *)
(* piece promotion_chooser put there.                                      *)
(***************************************************************************)
C10_PawnLeavesBackRankInPromotionChooser ==
    /\ \A sq \in DOMAIN pieces :
          (pieces[sq].kind = "PAWN" /\ sq[2] \in {0, 7}) =>
              /\ pc # "drag_piece"
              /\ LastReachedBackRank
              /\ LastMove.to = sq
    /\ (LastReachedBackRank /\ pc = "drag_piece") =>
          \/ /\ LastMove.to \notin DOMAIN pieces
             /\ promotion_square = Some(LastMove.to)
             /\ ~allow_drag
          \/ /\ LastMove.to \in DOMAIN pieces
             /\ pieces[LastMove.to].kind \in PROMOTION_KINDS
             /\ pieces[LastMove.to].color = LastMove.piece.color
             /\ promotion_square = None

\* promotion_chooser has removed the pawn that reached the back rank
C10_Witness ==
    /\ LastReachedBackRank
    /\ pc = "drag_piece"
    /\ LastMove.to \notin DOMAIN pieces
    /\ promotion_square = Some(LastMove.to)

(***************************************************************************)
(* The rules of chess, stated on their own: which squares a piece attacks, *)
(* which moves it has, check, checkmate and stalemate.  Castling is left   *)
(* out of the moves: it needs a legal king step to the square next to the  *)
(* king, so a side with no other legal move cannot castle either.          *)
(***************************************************************************)
\* the squares strictly between a and c, which share a rank, file or diagonal
between(a, c) ==
    LET n == IF abs(c[1] - a[1]) > abs(c[2] - a[2]) THEN abs(c[1] - a[1])
             ELSE abs(c[2] - a[2])
    IN  { Coordinate(a[1] + k * signum(c[1] - a[1]), a[2] + k * signum(c[2] - a[2])) :
            k \in 1..(n - 1) }

\* the piece on `from` attacks the square t in position p
attacks(p, from, t) ==
    LET kind == p[from].kind
        dx   == t[1] - from[1]
        dy   == t[2] - from[2]
        straight == (dx = 0 \/ dy = 0) /\ between(from, t) \cap DOMAIN p = {}
        diagonal == abs(dx) = abs(dy) /\ between(from, t) \cap DOMAIN p = {}
    IN  /\ t # from
        /\ CASE kind = "KING"   -> abs(dx) <= 1 /\ abs(dy) <= 1
             [] kind = "KNIGHT" -> (abs(dx) = 1 /\ abs(dy) = 2) \/ (abs(dx) = 2 /\ abs(dy) = 1)
             [] kind = "PAWN"   -> abs(dx) = 1 /\ dy = pawn_direction(p[from].color)
             [] kind = "ROOK"   -> straight
             [] kind = "BISHOP" -> diagonal
             [] kind = "QUEEN"  -> straight \/ diagonal

\* the king of that color stands on a square an opposing piece attacks
in_check(p, color) ==
    \E k \in DOMAIN p : \E a \in DOMAIN p :
        /\ p[k].kind = "KING" /\ p[k].color = color
        /\ p[a].color # color
        /\ attacks(p, a, k)

\* the positions the piece on `from` can move to by the rules, the mover's
\* king left aside: steps and captures of a piece, pushes and captures of a
\* pawn, and the en-passant capture of the pawn that has just double-stepped
rule_moves(p, from) ==
    LET piece == p[from]
        dir   == pawn_direction(piece.color)
        one   == Coordinate(from[1], from[2] + dir)
        two   == Coordinate(from[1], from[2] + 2 * dir)
        put(t) == insert(remove(p, from), t, [piece EXCEPT !.square = t])
    IN  IF piece.kind # "PAWN"
        THEN { put(t) : t \in { s \in (0..7) \X (0..7) :
                  /\ attacks(p, from, s)
                  /\ ~(s \in DOMAIN p /\ p[s].color = piece.color) } }
        ELSE { put(t) : t \in { s \in (0..7) \X (0..7) :
                  \/ s = one /\ s \notin DOMAIN p
                  \/ /\ s = two /\ s \notin DOMAIN p /\ one \notin DOMAIN p
                     /\ from[2] = (IF piece.color = "WHITE" THEN 1 ELSE 6)
                  \/ attacks(p, from, s) /\ s \in DOMAIN p /\ p[s].color # piece.color } }
             \cup
             { remove(put(Coordinate(LastMove.to[1], from[2] + dir)), LastMove.to) :
                 x \in { y \in {1} :
                     /\ LastDoubleStep
                     /\ LastMove.piece.color # piece.color
                     /\ LastMove.to[2] = from[2]
                     /\ abs(LastMove.to[1] - from[1]) = 1 } }

\* that color has no move that leaves its king unattacked
no_legal_move(p, color) ==
    \A from \in DOMAIN p :
        p[from].color = color => \A q \in rule_moves(p, from) : in_check(q, color)

one_king_each(p) == \A color \in PieceColor : Cardinality(kings_of(p, color)) = 1

checkmate(color) == one_king_each(pieces) /\ in_check(pieces, color) /\ no_legal_move(pieces, color)

stalemate(color) == one_king_each(pieces) /\ ~in_check(pieces, color) /\ no_legal_move(pieces, color)

(***************************************************************************)
(* C11.  In a checkmate position with the mated side to move, that side's  *)
(* king has is_checked = TRUE and has_moves of its color is FALSE.  The    *)
(* code offers an en-passant destination without asking whether it ends    *)
(* the check, so has_moves is TRUE in a mate given by a pawn's double step *)
(* beside an opposing pawn, and this fails.                                *)
(***************************************************************************)
C11_CheckmateIsCheckedAndHasNoMoves ==
    (Playable /\ checkmate(on_move)) =>
        /\ \A king \in kings_of(pieces, on_move) : is_checked(pieces, king)
        /\ ~has_moves(Board, on_move)

(***************************************************************************)
(* C12.  In a stalemate position with the stalemated side to move, that    *)
(* side's king has is_checked = FALSE and has_moves of its color is FALSE. *)
(* The code offers an en-passant destination to a pinned pawn, so          *)
(* has_moves is TRUE in such a stalemate, and this fails.                  *)
(***************************************************************************)
C12_StalemateIsNotCheckedAndHasNoMoves ==
    (Playable /\ stalemate(on_move)) =>
        /\ \A king \in kings_of(pieces, on_move) : ~is_checked(pieces, king)
        /\ ~has_moves(Board, on_move)

(***************************************************************************)
(* C13.  Board::new() yields exactly 32 pieces: on rank 0 (WHITE) and rank *)
(* 7 (BLACK) the files 0..7 hold ROOK, KNIGHT, BISHOP, KING, QUEEN,        *)
(* BISHOP, KNIGHT, ROOK; eight pawns of each color stand on rank 1 (WHITE) *)
(* and rank 6 (BLACK); ranks 2..5 are empty; every piece has moved =       *)
(* FALSE; on_move = WHITE, turn_number = 0 and en_pessant_file = None.     *)
(* turn_number is 0 only while the board is the one spawn_board inserted.  *)
(***************************************************************************)
standard_kind(f) ==
    CASE f \in {0, 7} -> "ROOK"
      [] f \in {1, 6} -> "KNIGHT"
      [] f \in {2, 5} -> "BISHOP"
      [] f = 3        -> "KING"
      [] f = 4        -> "QUEEN"

C13_NewIsTheStandardSetup ==
    turn_number = 0 =>
        /\ Cardinality(DOMAIN pieces) = 32
        /\ \A sq \in DOMAIN pieces : sq[1] \in 0..7 /\ sq[2] \in {0, 1, 6, 7}
        /\ \A f \in 0..7 :
              /\ Coordinate(f, 0) \in DOMAIN pieces
              /\ pieces[Coordinate(f, 0)] = Piece(standard_kind(f), "WHITE", Coordinate(f, 0), FALSE)
              /\ Coordinate(f, 1) \in DOMAIN pieces
              /\ pieces[Coordinate(f, 1)] = Piece("PAWN", "WHITE", Coordinate(f, 1), FALSE)
              /\ Coordinate(f, 6) \in DOMAIN pieces
              /\ pieces[Coordinate(f, 6)] = Piece("PAWN", "BLACK", Coordinate(f, 6), FALSE)
              /\ Coordinate(f, 7) \in DOMAIN pieces
              /\ pieces[Coordinate(f, 7)] = Piece(standard_kind(f), "BLACK", Coordinate(f, 7), FALSE)
        /\ on_move = "WHITE"
        /\ en_pessant_file = None

\* the board spawn_board inserted, before any move, after a frame has run
C13_Witness ==
    /\ turn_number = 0
    /\ last = None
    /\ pc = "promotion_chooser"
    /\ Cardinality(DOMAIN pieces) = 32

(***************************************************************************)
(* C14.  In every reachable state every key of Board.pieces has file and   *)
(* rank within 0..7, and so has every destination get_valid_moves returns  *)
(* for any piece on the board, of either color: castling and en-passant    *)
(* destinations included, and also for a pawn standing on a back rank      *)
(* before promotion_chooser has taken it off.                              *)
(***************************************************************************)
C14_CoordinatesOnBoard ==
    \A sq \in DOMAIN pieces :
        /\ sq[1] \in 0..7
        /\ sq[2] \in 0..7
        /\ ~no_king_panic(pieces, pieces[sq]) =>
              \A d \in offered(sq) : d[1] \in 0..7 /\ d[2] \in 0..7

\* a pawn stands on the back rank it has just reached, and get_valid_moves
\* returns for it
C14_Witness ==
    /\ LastReachedBackRank
    /\ pc = "promotion_chooser"
    /\ LastMove.to \in DOMAIN pieces
    /\ pieces[LastMove.to].kind = "PAWN"
    /\ ~no_king_panic(pieces, pieces[LastMove.to])
    /\ offered(LastMove.to) = {}

(***************************************************************************)
(* C15.  flip_on_move increases turn_number by exactly one, switches       *)
(* on_move to the other color and leaves pieces and en_pessant_file as     *)
(* they are: after the commit of drag_piece (move_piece, then              *)
(* flip_on_move) the pieces and en_pessant_file are those move_piece left, *)
(* turn_number is one more and the other color is to move.                 *)
(***************************************************************************)
C15_FlipOnMove ==
    [][ last' # last =>
            LET m == unwrap(last')
                b == move_piece(Board, m.from, m.to)
            IN  /\ turn_number' = turn_number + 1
                /\ on_move' \in PieceColor
                /\ on_move' # on_move
                /\ pieces' = b.pieces
                /\ en_pessant_file' = b.en_pessant_file ]_vars

\* every ply up to the horizon has been committed, each with its flip_on_move
C15_Witness ==
    /\ Committed
    /\ pc = "promotion_chooser"
    /\ turn_number = horizon
    /\ on_move # LastMove.piece.color

C17_OneKingEachAndNoPanic ==
    /\ \A color \in PieceColor : Cardinality(kings_of(pieces, color)) = 1
    /\ pc # "panicked"
    /\ \A sq \in DOMAIN pieces : ~no_king_panic(pieces, pieces[sq])

(***************************************************************************)
(* C18.  Committing a destination get_valid_moves offers to a piece of the *)
(* side to move removes no piece of the mover's color (nor does the nested *)
(* rook move of a castling or the removal of an en-passant capture), and   *)
(* the number of pieces goes down by at most one.                          *)
(***************************************************************************)
\* how many pieces of that kind and color stand in position p
count(p, color, kind) ==
    Cardinality({ sq \in DOMAIN p : p[sq].color = color /\ p[sq].kind = kind })

C18_NoFriendlyFire ==
    [][ last' # last =>
            LET mover == unwrap(last').piece.color
            IN  /\ mover = on_move
                /\ \A kind \in PieceKind :
                       count(pieces', mover, kind) = count(pieces, mover, kind)
                /\ Cardinality(DOMAIN pieces') <= Cardinality(DOMAIN pieces)
                /\ Cardinality(DOMAIN pieces') >= Cardinality(DOMAIN pieces) - 1 ]_vars

\* a castling has been committed whose nested rook move captured the opposing
\* piece beside the king
C18_Witness ==
    /\ LastCastling
    /\ pc = "promotion_chooser"
    /\ turn_number = castling_position.turn_number + 1
    /\ Cardinality(DOMAIN pieces) = Cardinality(DOMAIN castling_position.pieces) - 1

(***************************************************************************)
(* C19.  For a PAWN, of either color, every destination get_valid_moves    *)
(* offers is one of these: the square straight ahead, on the board and     *)
(* empty; the second square straight ahead, on the board and empty, for a  *)
(* pawn with moved = FALSE and the square between empty as well; a square  *)
(* diagonally ahead that holds an opposing piece; or the en-passant        *)
(* destination (the pawn on its fifth rank, the square diagonally ahead on *)
(* the file en_pessant_file names).  So no straight push lands on an       *)
(* occupied square.                                                        *)
(***************************************************************************)
C19_PawnDestinations ==
    \A sq \in DOMAIN pieces :
        (pieces[sq].kind = "PAWN" /\ ~no_king_panic(pieces, pieces[sq])) =>
            LET pawn == pieces[sq]
                dir  == IF pawn.color = "WHITE" THEN 1 ELSE -1
            IN  \A d \in offered(sq) :
                    \/ /\ d = <<sq[1], sq[2] + dir>>
                       /\ d[2] \in 0..7
                       /\ d \notin DOMAIN pieces
                    \/ /\ d = <<sq[1], sq[2] + 2 * dir>>
                       /\ d[2] \in 0..7
                       /\ d \notin DOMAIN pieces
                       /\ <<sq[1], sq[2] + dir>> \notin DOMAIN pieces
                       /\ ~pawn.moved
                    \/ /\ d[2] = sq[2] + dir
                       /\ d[1] \in {sq[1] - 1, sq[1] + 1}
                       /\ \/ d \in DOMAIN pieces /\ pieces[d].color # pawn.color
                          \/ /\ en_pessant_file = <<d[1]>>
                             /\ sq[2] = (IF pawn.color = "WHITE" THEN 4 ELSE 3)

\* a pawn that has moved is offered the step ahead but not the empty second
\* square, a pawn that has not is offered both, and a pawn is offered a
\* capture
C19_Witness ==
    /\ Playable
    /\ turn_number = horizon
    /\ \E sq \in DOMAIN pieces :
          /\ pieces[sq].kind = "PAWN" /\ pieces[sq].moved
          /\ <<sq[1], sq[2] + pawn_direction(pieces[sq].color)>> \in offered(sq)
          /\ <<sq[1], sq[2] + 2 * pawn_direction(pieces[sq].color)>> \notin DOMAIN pieces
          /\ sq[2] + 2 * pawn_direction(pieces[sq].color) \in 0..7
          /\ <<sq[1], sq[2] + 2 * pawn_direction(pieces[sq].color)>> \notin offered(sq)
    /\ \E sq \in DOMAIN pieces :
          /\ pieces[sq].kind = "PAWN" /\ ~pieces[sq].moved
          /\ <<sq[1], sq[2] + 2 * pawn_direction(pieces[sq].color)>> \in offered(sq)
    /\ \E sq \in DOMAIN pieces :
          /\ pieces[sq].kind = "PAWN"
          /\ \E d \in offered(sq) : d[1] # sq[1] /\ d \in DOMAIN pieces

(***************************************************************************)
(* C20.  For a ROOK, BISHOP or QUEEN, looking_at returns exactly the       *)
(* squares of the board on one of the piece's lines (rank or file for a    *)
(* rook, diagonal for a bishop, either for a queen) such that every square *)
(* strictly between the piece and the target is empty and the target is    *)
(* empty or holds an opposing piece: nothing behind the first occupied     *)
(* square of a ray, and no square holding a piece of its own color.        *)
(***************************************************************************)
\* the squares the slider on sq reaches in position p
line_of_sight(p, sq) ==
    { t \in (0..7) \X (0..7) :
        LET dx == t[1] - sq[1]
            dy == t[2] - sq[2]
        IN  /\ t # sq
            /\ \/ p[sq].kind \in {"ROOK", "QUEEN"} /\ (dx = 0 \/ dy = 0)
               \/ p[sq].kind \in {"BISHOP", "QUEEN"} /\ abs(dx) = abs(dy)
            /\ between(sq, t) \cap DOMAIN p = {}
            /\ t \in DOMAIN p => p[t].color # p[sq].color }

C20_SlidersLookAlongOpenLines ==
    \A sq \in DOMAIN pieces :
        pieces[sq].kind \in {"ROOK", "BISHOP", "QUEEN"} =>
            looking_at(pieces, pieces[sq]) = line_of_sight(pieces, sq)

\* a slider looks at an opposing piece and not at the square of the board
\* behind it, and a slider does not look at the piece of its own color that
\* ends an open ray
C20_Witness ==
    /\ turn_number = horizon
    /\ \E sq \in DOMAIN pieces : \E t \in looking_at(pieces, pieces[sq]) :
          LET behind == <<t[1] + signum(t[1] - sq[1]), t[2] + signum(t[2] - sq[2])>>
          IN  /\ pieces[sq].kind \in {"ROOK", "BISHOP", "QUEEN"}
              /\ t \in DOMAIN pieces
              /\ on_board(behind)
              /\ behind \notin looking_at(pieces, pieces[sq])
    /\ \E sq \in DOMAIN pieces : \E t \in DOMAIN pieces :
          /\ pieces[sq].kind \in {"ROOK", "BISHOP", "QUEEN"}
          /\ t # sq
          /\ pieces[t].color = pieces[sq].color
          /\ \/ pieces[sq].kind # "BISHOP" /\ (t[1] = sq[1] \/ t[2] = sq[2])
             \/ pieces[sq].kind # "ROOK" /\ abs(t[1] - sq[1]) = abs(t[2] - sq[2])
          /\ between(sq, t) \cap DOMAIN pieces = {}
          /\ t \notin looking_at(pieces, pieces[sq])

(***************************************************************************)
(* C21.  drag_piece calls move_piece(from, to) only when the piece on      *)
(* `from` has the color on_move and `to` is among get_valid_moves of that  *)
(* piece on the current board, and each such commit comes with exactly one *)
(* flip_on_move in the same step.  So the committed moves alternate        *)
(* WHITE, BLACK, WHITE, ... starting with WHITE, and turn_number is the    *)
(* number of committed moves.                                              *)
(***************************************************************************)
C21_CommitsAlternate ==
    /\ [] /\ turn_number = commits
          /\ on_move = (IF commits % 2 = 0 THEN "WHITE" ELSE "BLACK")
          /\ Committed <=> commits > 0
          /\ Committed => LastMove.piece.color # on_move
    /\ [][ /\ (commits' # commits) <=> (last' # last)
           /\ (commits' # commits) <=> (turn_number' # turn_number)
           /\ (commits' # commits) <=> (on_move' # on_move)
           /\ last' # last =>
                 LET m == unwrap(last')
                 IN  /\ pc = "drag_piece"
                     /\ allow_drag
                     /\ m.from \in DOMAIN pieces
                     /\ pieces[m.from] = m.piece
                     /\ m.piece.color = on_move
                     /\ m.to \in get_valid_moves(Board, m.piece)
                     /\ commits' = commits + 1
                     /\ turn_number' = turn_number + 1 ]_vars

\* every ply up to the horizon has been committed, by both colors in turn
C21_Witness ==
    /\ pc = "promotion_chooser"
    /\ Committed
    /\ commits = horizon
    /\ horizon > NewPly
    /\ LastMove.piece.color # on_move

(***************************************************************************)
(* C22.  The promotion protocol.  In the update step in which a pawn lands *)
(* on rank 0 or 7, promotion_chooser removes it, sets PromotionSquare to   *)
(* its square and AllowDrag to false.  While PromotionSquare is Some, no   *)
(* move is committed.  The selection puts on that square a QUEEN, ROOK,    *)
(* BISHOP or KNIGHT of the removed pawn's color, clears PromotionSquare    *)
(* and sets AllowDrag to true; on_move and turn_number stay as they are.   *)
(* So no pawn stands on rank 0 or 7 when an update step has ended.         *)
(***************************************************************************)
\* the squares of the back ranks that hold a pawn
back_rank_pawns ==
    { sq \in DOMAIN pieces : pieces[sq].kind = "PAWN" /\ sq[2] \in {0, 7} }

C22_PromotionProtocol ==
    /\ [] /\ pc = "drag_piece" => back_rank_pawns = {}
          /\ promotion_square # None =>
                /\ ~allow_drag
                /\ unwrap(promotion_square) \notin DOMAIN pieces
                /\ LastReachedBackRank
                /\ LastMove.to = unwrap(promotion_square)
    /\ [][ /\ (pc = "promotion_chooser" /\ pc' = "drag_piece" /\ back_rank_pawns # {}) =>
                 /\ back_rank_pawns = {LastMove.to}
                 /\ pieces' = [sq \in (DOMAIN pieces) \ back_rank_pawns |-> pieces[sq]]
                 /\ promotion_square' = <<LastMove.to>>
                 /\ allow_drag' = FALSE
           /\ promotion_square # None =>
                 /\ last' = last
                 /\ commits' = commits
                 /\ turn_number' = turn_number
                 /\ on_move' = on_move
           /\ (promotion_square # None /\ promotion_square' # promotion_square) =>
                 LET square == unwrap(promotion_square)
                 IN  /\ promotion_square' = None
                     /\ allow_drag' = TRUE
                     /\ DOMAIN pieces' = (DOMAIN pieces) \cup {square}
                     /\ \A sq \in DOMAIN pieces : pieces'[sq] = pieces[sq]
                     /\ pieces'[square].kind \in {"QUEEN", "ROOK", "BISHOP", "KNIGHT"}
                     /\ pieces'[square].color = LastMove.piece.color
                     /\ pieces'[square].square = square
           /\ (promotion_square' # promotion_square \/ allow_drag' # allow_drag) =>
                 pc = "promotion_chooser" ]_vars

\* the selection has put the chosen piece where the pawn was removed
C22_Witness ==
    /\ LastReachedBackRank
    /\ pc = "drag_piece"
    /\ promotion_square = None
    /\ allow_drag
    /\ LastMove.to \in DOMAIN pieces
    /\ pieces[LastMove.to].kind \in PROMOTION_KINDS
    /\ pieces[LastMove.to].color = LastMove.piece.color

(***************************************************************************)
(* C23.  In every position reached from Board::new() by committed moves    *)
(* and promotions, a PAWN has moved = FALSE exactly when it stands on its  *)
(* color's starting rank (rank 1 for WHITE, rank 6 for BLACK); so the      *)
(* two-step push is offered only to a pawn on its starting rank.           *)
(***************************************************************************)
starting_rank(color) == IF color = "WHITE" THEN 1 ELSE 6

two_ahead(sq) == <<sq[1], sq[2] + 2 * pawn_direction(pieces[sq].color)>>

C23_PawnUnmovedIffOnStartingRank ==
    \A sq \in DOMAIN pieces :
        pieces[sq].kind = "PAWN" =>
            /\ ~pieces[sq].moved <=> sq[2] = starting_rank(pieces[sq].color)
            /\ ~no_king_panic(pieces, pieces[sq]) =>
                  (two_ahead(sq) \in offered(sq) =>
                        sq[2] = starting_rank(pieces[sq].color))

\* after committed moves and a promotion: a pawn on its starting rank is
\* offered the two-step, a pawn off it with both squares ahead empty is not,
\* and the promoted piece stands unmoved on the far rank
C23_Witness ==
    /\ Playable
    /\ Committed
    /\ commits = horizon
    /\ \E sq \in DOMAIN pieces :
          /\ pieces[sq].kind = "PAWN" /\ ~pieces[sq].moved
          /\ sq[2] = starting_rank(pieces[sq].color)
          /\ two_ahead(sq) \in offered(sq)
    /\ \E sq \in DOMAIN pieces :
          /\ pieces[sq].kind = "PAWN" /\ pieces[sq].moved
          /\ sq[2] # starting_rank(pieces[sq].color)
          /\ two_ahead(sq)[2] \in 0..7
          /\ two_ahead(sq) \notin DOMAIN pieces
          /\ <<sq[1], sq[2] + pawn_direction(pieces[sq].color)>> \in offered(sq)
          /\ two_ahead(sq) \notin offered(sq)
    /\ \E sq \in DOMAIN pieces :
          /\ pieces[sq].kind \in PROMOTION_KINDS /\ ~pieces[sq].moved
          /\ sq[2] = (IF pieces[sq].color = "WHITE" THEN 7 ELSE 0)

====
